---------------------------- MODULE Spec2Model ----------------------------
(***************************************************************************)
(* A model of rssant's actor node (actorlib/node.py) and of the packed     *)
(* feed checksum (rssant_feedlib/feed_checksum.py).                        *)
(*                                                                         *)
(* The module holds several specifications over one set of variables:      *)
(*   SpecFC     FeedChecksum: constructor, update, copy, dump, load        *)
(*   SpecLoad   FeedChecksum.load over arbitrary bytes                     *)
(*   SpecApi    ActorNode.ask / tell / hope and the registery's routing    *)
(*   SpecRun    ActorNode.run(): startup, init message, receiver, shutdown *)
(*   SpecTimer  actor.timer: _load_timers and the sweeps of _schedule_timers*)
(*   SpecMon    the message monitor the node configures, the sender and    *)
(*              inbound ACKs over the outbox (SpecMonNoAck: a target that  *)
(*              never acknowledges, with the monitor's periodic sweep fair)*)
(* Each specification leaves the variables of the others unchanged.        *)
(***************************************************************************)
EXTENDS Integers, Sequences, FiniteSets, TLC

VARIABLES
    fc,         \* the FeedChecksum object: [version, map]; map is the
                \* OrderedDict as a sequence of <<key, value>> pairs
    data,       \* the bytes last returned by dump, or read back from storage
    fcErr,      \* what the last FeedChecksum operation raised ("none" if nothing)
    fcOp        \* the last FeedChecksum call: [op, ident, content, limit, ret]

VARIABLES
    name,               \* self.name
    actors,             \* the names of self.actors
    storage_dir_path,   \* the constructor's storage_dir_path
    storage,            \* "local" (ActorLocalStorage) or "memory" (ActorMemoryStorage)
    storage_compactor,  \* "none" (None), or the compactor's state: "new", "started", "shutdown"
    registery,          \* the registery's view: <<module, owning node>> pairs
    n_startup,          \* len(self._on_startup_handlers)
    n_shutdown,         \* len(self._on_shutdown_handlers)
    calls,              \* the messages handed over so far, in order: [to, msg]
    next_id,            \* the id of the next ActorMessage
    api_last,           \* the last ask / tell / hope: [op, dst, dst_node]
    api_err,            \* what it raised ("none" if nothing)
    routing_errors,     \* how many ask / tell / hope raised so far
    pc,                 \* where run() stands
    startup_idx,        \* the startup hooks that have returned
    shutdown_idx,       \* the shutdown hooks that have returned
    sender,             \* "new", "started", "shutdown"
    executor,           \* "new", "started", "shutdown"
    message_monitor,    \* "new", "started", "shutdown"
    receiver,           \* "new", "running", "stopped"
    run_exc             \* TRUE while an exception is propagating out of run()

VARIABLES
    clock,              \* time.time(), in seconds
    tpc,                \* where do_actor_timer stands
    timers,             \* the list of _load_timers: [name, seconds, deadline]
    load_time,          \* the time _load_timers read
    tasks,              \* the tasks list of the sweep under way
    task_idx,           \* the tasks of it whose hope has been awaited
    hoped,              \* the hopes of the sweep under way: [name, dst_node, raised]
    last_wake,          \* per handler, the `now` of its last wake-up (-1: none)
    prev_wake,          \* per handler, the `now` of the wake-up before (-1: none)
    wake_at             \* when the sleep under way ends

VARIABLES
    node_args,          \* the ack_timeout and max_retry_count given to ActorNode
    monitor_cfg,        \* message_monitor.ack_timeout and .max_retry_count
    m_status,           \* per message id: "none", "OUTBOX", "ACKED", "ERROR"
    m_require_ack,      \* per message id: its require_ack
    m_retry,            \* per message id: retry_count
    m_age,              \* per message id: now - last_send_at, kept up to the
                        \* first value past every timeout of the model
    m_queue,            \* Sender.outbox: the ids waiting to be sent
    m_delivered,        \* per message id: the target has received it
    m_terminal,         \* per message id: the terminal records written, in order
    m_requeues,         \* per message id: the times the monitor re-enqueued it
    m_tries,            \* per message id: the sender's failed attempts
    m_acks              \* per message id: the ACKs the receiver got for it

fcVars == <<fc, data, fcErr, fcOp>>

monVars == <<node_args, monitor_cfg, m_status, m_require_ack, m_retry, m_age,
             m_queue, m_delivered, m_terminal, m_requeues, m_tries, m_acks>>

timerVars == <<clock, tpc, timers, load_time, tasks, task_idx, hoped, last_wake,
               prev_wake, wake_at>>

configVars == <<name, actors, storage_dir_path, storage, registery, n_startup,
               n_shutdown>>

apiVars == <<calls, next_id, api_last, api_err, routing_errors>>

runVars == <<storage_compactor, pc, startup_idx, shutdown_idx, sender, executor, message_monitor,
             receiver, run_exc>>

nodeVars == <<configVars, apiVars, runVars>>

notNode == <<fcVars, timerVars, monVars>>

notFC == <<nodeVars, timerVars, monVars>>

notTimer == <<fcVars, nodeVars, monVars>>

notMon == <<fcVars, nodeVars, timerVars>>

vars == <<fcVars, nodeVars, timerVars, monVars>>

(***************************************************************************)
(* Generic helpers                                                         *)
(***************************************************************************)
Min(a, b) == IF a <= b THEN a ELSE b

Max(a, b) == IF a >= b THEN a ELSE b

SeqRange(s) == {s[i] : i \in 1..Len(s)}

(***************************************************************************)
(* FeedChecksum                                                            *)
(***************************************************************************)
\* Most entries an object of the model holds.
MaxSize == 2

\* Longest item list handed to the constructor.
MaxItems == 2

_key_len == 4

_val_len == 8

_key_val_len == _key_len + _val_len

\* limit=None is <<>>, limit=n is <<n>>.
NoLimit == <<>>

Limits == {NoLimit} \cup {<<n>> : n \in 0..MaxSize}

\* hashlib.md5(value.encode('utf-8')).digest(), its first 8 bytes, for the
\* strings of the model (the real digests).
Strings == {"", "a", "b"}

Md5(value) ==
    CASE value = ""  -> <<212, 29, 140, 217, 143, 0, 178, 4>>
      [] value = "a" -> <<12, 193, 117, 185, 192, 241, 182, 168>>
      [] value = "b" -> <<146, 235, 95, 254, 230, 174, 47, 236>>

_hash(value, length) == SubSeq(Md5(value), 1, length)

\* Keys and values handed to the constructor: well-formed ones and ones of a
\* wrong length.
ItemKeys == {<<0, 0, 0, 1>>, <<0, 1, 0>>}

ItemVals == {<<0, 0, 0, 1, 0, 0, 0, 0>>, <<1, 0, 0, 0, 0, 0, 0>>}

ItemLists ==
    UNION {[1..n -> ItemKeys \X ItemVals] : n \in 0..MaxItems}

\* Bytes read back from storage that no dump wrote: a version byte, then keys, then as
\* many values, the i-th value stamped i, then possibly a stray byte; and the
\* empty bytes.
BlobVersions == {0, 1, 2}

BlobKeys == {<<0, 0, 0, 1>>, <<0, 0, 0, 2>>}

BlobVal(i) == <<i, 0, 0, 0, 0, 0, 0, 0>>

BlobStrays == {<<>>, <<7>>}

RECURSIVE Concat(_)
Concat(ss) == IF ss = <<>> THEN <<>> ELSE Head(ss) \o Concat(Tail(ss))

Blob(version, keys, stray) ==
    <<version>> \o Concat(keys) \o Concat([i \in 1..Len(keys) |-> BlobVal(i)]) \o stray

Blobs ==
    {<<>>} \cup
    {Blob(version, keys, stray) :
        version \in BlobVersions,
        keys \in UNION {[1..n -> BlobKeys] : n \in 0..MaxSize},
        stray \in BlobStrays}

\* _check_key_value: TRUE when it returns, FALSE when it raises ValueError.
_check_key_value(key, value) ==
    Len(key) = _key_len /\ Len(value) = _val_len

\* OrderedDict.get(key): <<>> for None, else <<value>>.
MapGet(map, key) ==
    LET hits == {i \in 1..Len(map) : map[i][1] = key}
    IN  IF hits = {} THEN <<>> ELSE <<map[CHOOSE i \in hits : TRUE][2]>>

\* OrderedDict.__setitem__: an existing key keeps its place, a new one is
\* appended.
MapSet(map, key, value) ==
    IF \E i \in 1..Len(map) : map[i][1] = key
    THEN [i \in 1..Len(map) |->
            IF map[i][1] = key THEN <<key, value>> ELSE map[i]]
    ELSE Append(map, <<key, value>>)

RECURSIVE MapFromItems(_, _)
MapFromItems(map, items) ==
    IF items = <<>> THEN map
    ELSE MapFromItems(MapSet(map, Head(items)[1], Head(items)[2]), Tail(items))

\* FeedChecksum(items, version): [ok, obj]; ok = FALSE is ValueError and no
\* object is built.
EmptyChecksum == [version |-> 1, map |-> <<>>]

\* A constructor that stores the items without _check_key_value.
FeedChecksumUnchecked(items, version) ==
    IF version # 1 THEN [ok |-> FALSE, obj |-> EmptyChecksum]
    ELSE [ok |-> TRUE, obj |-> [version |-> version, map |-> MapFromItems(<<>>, items)]]

FeedChecksum(items, version) ==
    IF version # 1 THEN [ok |-> FALSE, obj |-> EmptyChecksum]
    ELSE IF \E i \in 1..Len(items) : ~_check_key_value(items[i][1], items[i][2])
    THEN [ok |-> FALSE, obj |-> EmptyChecksum]
    ELSE [ok |-> TRUE, obj |-> [version |-> version, map |-> MapFromItems(<<>>, items)]]

size(x) == Len(x.map)

\* __eq__: version and OrderedDict equality (order-sensitive between two
\* OrderedDicts).
FcEq(x, y) == x.version = y.version /\ x.map = y.map

\* A dump that keeps the first `limit` items.
DumpItemsFirst(x, limit) ==
    LET length == Len(x.map)
    IN  IF limit # NoLimit /\ length > limit[1]
        THEN SubSeq(x.map, 1, limit[1])
        ELSE x.map

\* The items dump walks: all of them, or the last `limit` ones.
DumpItems(x, limit) ==
    LET length == Len(x.map)
    IN  IF limit # NoLimit /\ length > limit[1]
        THEN SubSeq(x.map, length - limit[1] + 1, length)
        ELSE x.map

\* A dump that writes each key next to its value.
DumpInterleaved(x, limit) ==
    LET items == DumpItems(x, limit)
    IN  [ok |-> TRUE,
         bytes |-> <<x.version % 256>>
                   \o Concat([i \in 1..Len(items) |-> items[i][1] \o items[i][2]])]

\* dump(limit): [ok, bytes]; version byte, then the keys, then the values.
Dump(x, limit) ==
    LET items == DumpItems(x, limit)
    IN  IF \E i \in 1..Len(items) : ~_check_key_value(items[i][1], items[i][2])
        THEN [ok |-> FALSE, bytes |-> <<>>]
        ELSE [ok |-> TRUE,
              bytes |-> <<x.version % 256>>
                        \o Concat([i \in 1..Len(items) |-> items[i][1]])
                        \o Concat([i \in 1..Len(items) |-> items[i][2]])]

\* A load that does not look at the remainder of the length.
LoadAnyLength(bytes) ==
    IF bytes = <<>> THEN [ok |-> FALSE, err |-> "struct.error", obj |-> EmptyChecksum]
    ELSE
    LET version == bytes[1]
        n       == (Len(bytes) - 1) \div _key_val_len
        items == [i \in 1..n |->
                    <<SubSeq(bytes, 2 + (i - 1) * _key_len, 1 + i * _key_len),
                      SubSeq(bytes, 2 + n * _key_len + (i - 1) * _val_len,
                                    1 + n * _key_len + i * _val_len)>>]
        made == FeedChecksum(items, version)
    IN  [ok |-> made.ok,
         err |-> IF made.ok THEN "none" ELSE "ValueError",
         obj |-> made.obj]

\* load(data): [ok, err, obj].
Load(bytes) ==
    IF bytes = <<>> THEN [ok |-> FALSE, err |-> "struct.error", obj |-> EmptyChecksum]
    ELSE
    LET version == bytes[1]
        n       == (Len(bytes) - 1) \div _key_val_len
        remain  == (Len(bytes) - 1) % _key_val_len
        keys_buffer == SubSeq(bytes, 2, 1 + n * _key_len)
        vals_buffer == SubSeq(bytes, 2 + n * _key_len, Len(bytes))
        nk == Len(keys_buffer) \div _key_len
        nv == Len(vals_buffer) \div _val_len
        items == [i \in 1..Min(nk, nv) |->
                    <<SubSeq(keys_buffer, (i - 1) * _key_len + 1, i * _key_len),
                      SubSeq(vals_buffer, (i - 1) * _val_len + 1, i * _val_len)>>]
        made == FeedChecksum(items, version)
    IN  IF version # 1 \/ remain # 0
        THEN [ok |-> FALSE, err |-> "ValueError", obj |-> EmptyChecksum]
        ELSE [ok |-> made.ok,
              err |-> IF made.ok THEN "none" ELSE "ValueError",
              obj |-> made.obj]

\* An update that stores the new hash and reports a change without looking at
\* the stored one.
UpdateAlways(x, ident, content) ==
    IF ident = "" THEN [raised |-> TRUE, changed |-> FALSE, obj |-> x]
    ELSE [raised |-> FALSE, changed |-> TRUE,
          obj |-> [x EXCEPT !.map = MapSet(x.map, _hash(ident, _key_len),
                                           _hash(content, _val_len))]]

\* update(ident, content): [raised, changed, obj].
Update(x, ident, content) ==
    IF ident = "" THEN [raised |-> TRUE, changed |-> FALSE, obj |-> x]
    ELSE
    LET key     == _hash(ident, _key_len)
        old_sum == MapGet(x.map, key)
        new_sum == _hash(content, _val_len)
    IN  IF old_sum = <<>> \/ old_sum[1] # new_sum
        THEN [raised |-> FALSE, changed |-> TRUE,
              obj |-> [x EXCEPT !.map = MapSet(x.map, key, new_sum)]]
        ELSE [raised |-> FALSE, changed |-> FALSE, obj |-> x]

\* copy()
Copy(x) == FeedChecksum(x.map, x.version)

\* A call as fcOp records it: ident and content are update's arguments, limit
\* is dump's, ret is what update returned; each is read only under its own op.
FcCall(op, ident, content, limit, ret) ==
    [op |-> op, ident |-> ident, content |-> content, limit |-> limit, ret |-> ret]

StartFC ==
    /\ fc = EmptyChecksum
    /\ data = <<1>>
    /\ fcErr = "none"
    /\ fcOp = FcCall("none", "", "", NoLimit, FALSE)

\* x = FeedChecksum(items)
FcNew(items) ==
    LET r == FeedChecksum(items, 1)
    IN  /\ r.ok => size(r.obj) <= MaxSize
        /\ fc' = IF r.ok THEN r.obj ELSE fc
        /\ fcErr' = IF r.ok THEN "none" ELSE "ValueError"
        /\ fcOp' = FcCall("FeedChecksum", "", "", NoLimit, FALSE)
        /\ UNCHANGED <<notFC, data>>

\* x.update(ident, content)
FcUpdate(ident, content) ==
    LET r == Update(fc, ident, content)
    IN  /\ size(r.obj) <= MaxSize
        /\ fc' = r.obj
        /\ fcErr' = IF r.raised THEN "ValueError" ELSE "none"
        /\ fcOp' = FcCall("update", ident, content, NoLimit, r.changed)
        /\ UNCHANGED <<notFC, data>>

\* x = x.copy()
FcCopy ==
    LET r == Copy(fc)
    IN  /\ fc' = IF r.ok THEN r.obj ELSE fc
        /\ fcErr' = IF r.ok THEN "none" ELSE "ValueError"
        /\ fcOp' = FcCall("copy", "", "", NoLimit, FALSE)
        /\ UNCHANGED <<notFC, data>>

\* data = x.dump(limit)
FcDump(limit) ==
    LET r == Dump(fc, limit)
    IN  /\ data' = IF r.ok THEN r.bytes ELSE data
        /\ fcErr' = IF r.ok THEN "none" ELSE "ValueError"
        /\ fcOp' = FcCall("dump", "", "", limit, FALSE)
        /\ UNCHANGED <<notFC, fc>>

\* x = FeedChecksum.load(data)
FcLoad ==
    LET r == Load(data)
    IN  /\ fc' = IF r.ok THEN r.obj ELSE fc
        /\ fcErr' = r.err
        /\ fcOp' = FcCall("load", "", "", NoLimit, FALSE)
        /\ UNCHANGED <<notFC, data>>

NextFC ==
    \/ \E items \in ItemLists : FcNew(items)
    \/ \E ident \in Strings, content \in Strings : FcUpdate(ident, content)
    \/ FcCopy
    \/ \E limit \in Limits : FcDump(limit)
    \/ FcLoad

(***************************************************************************)
(* The state of actor.timer before it runs                                 *)
(***************************************************************************)
\* self.actors.values(): the builtin actors first, then the given ones.
ActorOrder ==
    <<"actor.health", "actor.timer", "actor.init", "worker.ping", "worker.pong",
      "worker.tick", "worker.sync">>

StartTimer ==
    /\ clock = 0
    /\ tpc = "idle"
    /\ timers = <<>>
    /\ load_time = 0
    /\ tasks = <<>>
    /\ task_idx = 0
    /\ hoped = <<>>
    /\ last_wake = [a \in SeqRange(ActorOrder) |-> -1]
    /\ prev_wake = [a \in SeqRange(ActorOrder) |-> -1]
    /\ wake_at = 0

(***************************************************************************)
(* The message monitor as ActorNode.__init__ configures it                 *)
(***************************************************************************)
\* Most messages in the outbox.
MaxOutbox == 1

\* Largest ack_timeout (seconds) and max_retry_count given to a node.
MaxAckTimeout == 2

MaxRetryCount == 2

\* Most failed attempts of the sender on one message.
MaxSendTries == 1

\* Most ACKs the receiver gets for one message.
MaxAcks == 2

MsgIds == 1..MaxOutbox

\* A monitor built with the two arguments in each other's place.
MonitorArgsSwapped(ack_timeout, max_retry_count) ==
    [ack_timeout |-> max_retry_count, max_retry_count |-> ack_timeout]

\* ActorMessageMonitor(storage, executor, sender, ack_timeout=ack_timeout,
\* max_retry_count=max_retry_count)
ActorMessageMonitor(ack_timeout, max_retry_count) ==
    [ack_timeout |-> ack_timeout, max_retry_count |-> max_retry_count]

StartMon(ack_timeout, max_retry_count) ==
    /\ node_args = [ack_timeout |-> ack_timeout, max_retry_count |-> max_retry_count]
    /\ monitor_cfg = ActorMessageMonitor(ack_timeout, max_retry_count)
    /\ m_status = [i \in MsgIds |-> "none"]
    /\ m_require_ack = [i \in MsgIds |-> FALSE]
    /\ m_retry = [i \in MsgIds |-> 0]
    /\ m_age = [i \in MsgIds |-> 0]
    /\ m_queue = {}
    /\ m_delivered = [i \in MsgIds |-> FALSE]
    /\ m_terminal = [i \in MsgIds |-> <<>>]
    /\ m_requeues = [i \in MsgIds |-> 0]
    /\ m_tries = [i \in MsgIds |-> 0]
    /\ m_acks = [i \in MsgIds |-> 0]

\* The defaults of ActorNode.__init__: ack_timeout=180, max_retry_count=3.
DefaultAckTimeout == 180

DefaultMaxRetryCount == 3

StartMonDefault == StartMon(DefaultAckTimeout, DefaultMaxRetryCount)

(***************************************************************************)
(* ActorNode: construction                                                 *)
(***************************************************************************)
\* Most startup hooks, and most shutdown hooks, of a node.
MaxHooks == 2

\* Most messages created through ask / tell / hope by a caller of the node.
MaxMsgs == 2

None == "None"

\* if not name: name = f'actor-{port}', with the default port.
NodeName(name_arg) ==
    IF name_arg = None \/ name_arg = "" THEN "actor-8000" ELSE name_arg

\* The module of an actor name: the prefix before the dot.
Module(dst) ==
    CASE dst \in {"actor.health", "actor.timer", "actor.init"} -> "actor"
      [] dst \in {"worker.ping", "worker.pong", "worker.tick", "worker.sync"}
                                                               -> "worker"
      [] dst = "registery.query"                               -> "registery"
      [] dst = "ghost.echo"                                    -> "ghost"

builtin_actors == {"actor.health", "actor.timer"}

\* A node that gives a compactor to the memory storage and none to the
\* durable one.
StorageForSwapped(dir_path) ==
    IF dir_path # None /\ dir_path # ""
    THEN [storage |-> "local", storage_compactor |-> "none"]
    ELSE [storage |-> "memory", storage_compactor |-> "new"]

\* if storage_dir_path: ActorLocalStorage and a compactor, else
\* ActorMemoryStorage and None.
StorageFor(dir_path) ==
    IF dir_path # None /\ dir_path # ""
    THEN [storage |-> "local", storage_compactor |-> "new"]
    ELSE [storage |-> "memory", storage_compactor |-> "none"]

\* The state after ActorNode.__init__.
StartNode(name_arg, user_actors, dir_path, registery_node_spec, ns, nd) ==
    /\ name = NodeName(name_arg)
    /\ actors = builtin_actors \cup user_actors
    /\ storage_dir_path = dir_path
    /\ storage = StorageFor(dir_path).storage
    /\ storage_compactor = StorageFor(dir_path).storage_compactor
    /\ registery =
            {<<Module(a), NodeName(name_arg)>> : a \in builtin_actors \cup user_actors}
            \cup (IF registery_node_spec THEN {<<"registery", "registery">>} ELSE {})
    /\ n_startup = ns
    /\ n_shutdown = nd
    /\ calls = <<>>
    /\ next_id = 1
    /\ api_last = [op |-> "none", dst |-> "none", dst_node |-> None]
    /\ api_err = "none"
    /\ routing_errors = 0
    /\ pc = "constructed"
    /\ startup_idx = 0
    /\ shutdown_idx = 0
    /\ sender = "new"
    /\ executor = "new"
    /\ message_monitor = "new"
    /\ receiver = "new"
    /\ run_exc = FALSE

NameArgs == {None, "worker"}

UserActorSets == {{}, {"actor.init", "worker.ping", "worker.pong"}}

StorageDirPaths == {None, "", "data/actorlib_example_worker"}

(***************************************************************************)
(* The registery, as node.py uses it                                       *)
(***************************************************************************)
\* current_node.name: the registery is built with name=self.name.
current_node_name == name

HasOwner(module) == \E e \in registery : e[1] = module

OwnerOf(module) == (CHOOSE e \in registery : e[1] = module)[2]

\* ActorMessage(...): the flags not given take the message's defaults.
ActorMessage(id, dst, dst_node, is_ask, require_ack) ==
    [id |-> id, src |-> "actor.init", dst |-> dst, dst_node |-> dst_node,
     is_ask |-> is_ask, require_ack |-> require_ack]

DefaultFlag == FALSE

\* complete_message(msg): [ok, msg]; ok = FALSE is the routing error.
complete_message(msg) ==
    IF msg.dst_node # None THEN [ok |-> TRUE, msg |-> msg]
    ELSE IF HasOwner(Module(msg.dst))
    THEN [ok |-> TRUE, msg |-> [msg EXCEPT !.dst_node = OwnerOf(Module(msg.dst))]]
    ELSE [ok |-> FALSE, msg |-> msg]

\* is_local_message(msg)
is_local_message(msg) == msg.dst_node = current_node_name

(***************************************************************************)
(* ActorNode._create_message / ask / tell / hope                           *)
(***************************************************************************)
\* A _create_message that skips the registery: the message is never refused.
CreateUnchecked(id, dst, dst_node, is_ask, require_ack) ==
    LET msg == ActorMessage(id, dst, dst_node, is_ask, require_ack)
        r   == complete_message(msg)
    IN  [ok |-> TRUE, msg |-> IF r.ok THEN r.msg ELSE msg]

\* _create_message: [ok, msg]; ok = FALSE when complete_message raised.
_create_message(id, dst, dst_node, is_ask, require_ack) ==
    complete_message(ActorMessage(id, dst, dst_node, is_ask, require_ack))

Handed(cs, op, to, msg) == Append(cs, [op |-> op, to |-> to, msg |-> msg])

\* ask(dst, dst_node) on the calls cs with message id `id`: [raised, calls].
ask(cs, id, dst, dst_node) ==
    LET r == _create_message(id, dst, dst_node, TRUE, DefaultFlag)
    IN  IF ~r.ok THEN [raised |-> TRUE, calls |-> cs]
        ELSE IF is_local_message(r.msg)
        THEN [raised |-> FALSE, calls |-> Handed(cs, "ask", "executor.handle_ask", r.msg)]
        ELSE [raised |-> FALSE, calls |-> Handed(cs, "ask", "main_thread_client.ask", r.msg)]

\* A tell that hands every message to the sender, and one that asks for no ack.
TellAlwaysSender(cs, id, dst, dst_node) ==
    LET r == _create_message(id, dst, dst_node, DefaultFlag, TRUE)
    IN  IF ~r.ok THEN [raised |-> TRUE, calls |-> cs]
        ELSE [raised |-> FALSE, calls |-> Handed(cs, "tell", "sender.submit", r.msg)]

TellNoAck(cs, id, dst, dst_node) ==
    LET r == _create_message(id, dst, dst_node, DefaultFlag, FALSE)
    IN  IF ~r.ok THEN [raised |-> TRUE, calls |-> cs]
        ELSE IF is_local_message(r.msg)
        THEN [raised |-> FALSE, calls |-> Handed(cs, "tell", "executor.submit", r.msg)]
        ELSE [raised |-> FALSE, calls |-> Handed(cs, "tell", "sender.submit", r.msg)]

\* tell(dst, dst_node)
tell(cs, id, dst, dst_node) ==
    LET r == _create_message(id, dst, dst_node, DefaultFlag, TRUE)
    IN  IF ~r.ok THEN [raised |-> TRUE, calls |-> cs]
        ELSE IF is_local_message(r.msg)
        THEN [raised |-> FALSE, calls |-> Handed(cs, "tell", "executor.submit", r.msg)]
        ELSE [raised |-> FALSE, calls |-> Handed(cs, "tell", "sender.submit", r.msg)]

\* hope(dst, dst_node)
hope(cs, id, dst, dst_node) ==
    LET r == _create_message(id, dst, dst_node, DefaultFlag, FALSE)
    IN  IF ~r.ok THEN [raised |-> TRUE, calls |-> cs]
        ELSE IF is_local_message(r.msg)
        THEN [raised |-> FALSE, calls |-> Handed(cs, "hope", "executor.submit", r.msg)]
        ELSE [raised |-> FALSE, calls |-> Handed(cs, "hope", "sender.submit", r.msg)]

\* The effect of one call of ask / tell / hope on the node.
ApiEffect(op, dst, dst_node, r) ==
    /\ calls' = r.calls
    /\ next_id' = next_id + 1
    /\ api_last' = [op |-> op, dst |-> dst, dst_node |-> dst_node]
    /\ api_err' = IF r.raised THEN "RoutingError" ELSE "none"
    /\ routing_errors' = routing_errors + (IF r.raised THEN 1 ELSE 0)

Ask(dst, dst_node) ==
    /\ next_id <= MaxMsgs
    /\ ApiEffect("ask", dst, dst_node, ask(calls, next_id, dst, dst_node))
    /\ UNCHANGED <<notNode, configVars, runVars>>

Tell(dst, dst_node) ==
    /\ next_id <= MaxMsgs
    /\ ApiEffect("tell", dst, dst_node, tell(calls, next_id, dst, dst_node))
    /\ UNCHANGED <<notNode, configVars, runVars>>

Hope(dst, dst_node) ==
    /\ next_id <= MaxMsgs
    /\ ApiEffect("hope", dst, dst_node, hope(calls, next_id, dst, dst_node))
    /\ UNCHANGED <<notNode, configVars, runVars>>

\* The registery learns, or forgets, the node that owns module "ghost".
RegisteryUpdate ==
    /\ registery' = IF <<"ghost", "peer">> \in registery
                    THEN registery \ {<<"ghost", "peer">>}
                    ELSE registery \cup {<<"ghost", "peer">>}
    /\ UNCHANGED <<notNode, name, actors, storage_dir_path, storage, n_startup, n_shutdown,
                   apiVars, runVars>>

Dsts == {"worker.ping", "registery.query", "ghost.echo"}

DstNodes == {None, "worker", "registery"}

InitApi ==
    /\ StartFC
    /\ StartMonDefault
    /\ StartTimer
    /\ \E name_arg \in NameArgs, user_actors \in UserActorSets,
          registery_node_spec \in BOOLEAN :
            StartNode(name_arg, user_actors, None, registery_node_spec, 0, 0)

NextApi ==
    \/ \E dst \in Dsts, dst_node \in DstNodes : Ask(dst, dst_node)
    \/ \E dst \in Dsts, dst_node \in DstNodes : Tell(dst, dst_node)
    \/ \E dst \in Dsts, dst_node \in DstNodes : Hope(dst, dst_node)
    \/ RegisteryUpdate

SpecApi == InitApi /\ [][NextApi]_vars

(***************************************************************************)
(* ActorNode.run()                                                         *)
(***************************************************************************)
\* An init message sent whether or not an actor.init handler is registered.
SendInitAlways(cs, id) ==
    LET h1 == hope(cs, id, "actor.init", current_node_name)
        h2 == hope(h1.calls, id + 1, "actor.timer", current_node_name)
    IN  IF h1.raised THEN [raised |-> TRUE, calls |-> h1.calls, next_id |-> id + 1]
        ELSE [raised |-> h2.raised, calls |-> h2.calls, next_id |-> id + 2]

\* _send_init_message: [raised, calls, next_id].
_send_init_message(cs, id) ==
    LET with_init == "actor.init" \in actors
        h1 == IF with_init THEN hope(cs, id, "actor.init", current_node_name)
              ELSE [raised |-> FALSE, calls |-> cs]
        id2 == IF with_init THEN id + 1 ELSE id
        h2 == hope(h1.calls, id2, "actor.timer", current_node_name)
    IN  IF h1.raised THEN [raised |-> TRUE, calls |-> h1.calls, next_id |-> id2]
        ELSE [raised |-> h2.raised, calls |-> h2.calls, next_id |-> id2 + 1]

\* self.sender.start()
RunStartSender ==
    /\ pc = "constructed"
    /\ sender' = "started"
    /\ pc' = "start_executor"
    /\ UNCHANGED <<notNode, configVars, apiVars, storage_compactor, startup_idx, shutdown_idx,
                   executor, message_monitor, receiver, run_exc>>

\* self.executor.start()
RunStartExecutor ==
    /\ pc = "start_executor"
    /\ executor' = "started"
    /\ pc' = "start_compactor"
    /\ UNCHANGED <<notNode, configVars, apiVars, storage_compactor, startup_idx, shutdown_idx,
                   sender, message_monitor, receiver, run_exc>>

\* if self.storage_compactor: self.storage_compactor.start()
RunStartCompactor ==
    /\ pc = "start_compactor"
    /\ storage_compactor' =
            IF storage_compactor # "none" THEN "started" ELSE storage_compactor
    /\ pc' = "start_monitor"
    /\ UNCHANGED <<notNode, configVars, apiVars, startup_idx, shutdown_idx, sender, executor,
                   message_monitor, receiver, run_exc>>

\* self.message_monitor.start()
RunStartMonitor ==
    /\ pc = "start_monitor"
    /\ message_monitor' = "started"
    /\ pc' = "startup"
    /\ UNCHANGED <<notNode, configVars, apiVars, storage_compactor, startup_idx, shutdown_idx,
                   sender, executor, receiver, run_exc>>

\* for handler in self._on_startup_handlers: handler(self)
\* The hook returns, or raises and run() goes to its finally block.
RunStartupHook(raises) ==
    /\ pc = "startup"
    /\ startup_idx < n_startup
    /\ IF raises
       THEN /\ run_exc' = TRUE
            /\ pc' = "shutdown"
            /\ UNCHANGED startup_idx
       ELSE /\ startup_idx' = startup_idx + 1
            /\ UNCHANGED <<run_exc, pc>>
    /\ UNCHANGED <<notNode, configVars, apiVars, storage_compactor, shutdown_idx, sender,
                   executor, message_monitor, receiver>>

\* self._send_init_message()
RunSendInitMessage ==
    /\ pc = "startup"
    /\ startup_idx = n_startup
    /\ LET r == _send_init_message(calls, next_id)
       IN  /\ calls' = r.calls
           /\ next_id' = r.next_id
           /\ run_exc' = r.raised
           /\ api_err' = IF r.raised THEN "RoutingError" ELSE "none"
           /\ routing_errors' = routing_errors + (IF r.raised THEN 1 ELSE 0)
           /\ pc' = IF r.raised THEN "shutdown" ELSE "receiver"
    /\ api_last' = [op |-> "hope", dst |-> "actor.timer", dst_node |-> current_node_name]
    /\ UNCHANGED <<notNode, configVars, storage_compactor, startup_idx, shutdown_idx, sender,
                   executor, message_monitor, receiver>>

\* self.receiver.run() is entered: the receiver serves requests.
RunReceiver ==
    /\ pc = "receiver"
    /\ receiver' = "running"
    /\ pc' = "receiving"
    /\ UNCHANGED <<notNode, configVars, apiVars, storage_compactor, startup_idx, shutdown_idx,
                   sender, executor, message_monitor, run_exc>>

\* self.receiver.run() returns, or raises.
ReceiverExit(raises) ==
    /\ pc = "receiving"
    /\ receiver' = "stopped"
    /\ run_exc' = raises
    /\ pc' = "shutdown"
    /\ UNCHANGED <<notNode, configVars, apiVars, storage_compactor, startup_idx, shutdown_idx,
                   sender, executor, message_monitor>>

\* A shutdown loop without the inner finally block: a hook that raises leaves
\* run() at once.
RunShutdownHookEscapes(raises) ==
    /\ pc = "shutdown"
    /\ shutdown_idx < n_shutdown
    /\ IF raises
       THEN /\ run_exc' = TRUE
            /\ pc' = "done"
            /\ UNCHANGED shutdown_idx
       ELSE /\ shutdown_idx' = shutdown_idx + 1
            /\ UNCHANGED <<run_exc, pc>>
    /\ UNCHANGED <<notNode, configVars, apiVars, storage_compactor, startup_idx, sender,
                   executor, message_monitor, receiver>>

\* for handler in self._on_shutdown_handlers: handler(self)
\* A hook that raises ends the loop; the inner finally block still runs.
RunShutdownHook(raises) ==
    /\ pc = "shutdown"
    /\ shutdown_idx < n_shutdown
    /\ IF raises
       THEN /\ run_exc' = TRUE
            /\ pc' = "fin_monitor"
            /\ UNCHANGED shutdown_idx
       ELSE /\ shutdown_idx' = shutdown_idx + 1
            /\ UNCHANGED <<run_exc, pc>>
    /\ UNCHANGED <<notNode, configVars, apiVars, storage_compactor, startup_idx, sender,
                   executor, message_monitor, receiver>>

\* Where the inner finally block begins: the shutdown hooks are over.
AtFinally ==
    \/ pc = "fin_monitor"
    \/ pc = "shutdown" /\ shutdown_idx = n_shutdown

\* A finally block in the order executor, sender, then monitor and compactor:
\* its first step.
RunShutdownExecutorFirst ==
    /\ AtFinally
    /\ executor' = "shutdown"
    /\ pc' = "fin_sender"
    /\ UNCHANGED <<notNode, configVars, apiVars, storage_compactor, startup_idx, shutdown_idx,
                   sender, message_monitor, receiver, run_exc>>

\* self.message_monitor.shutdown()
RunShutdownMonitor ==
    /\ AtFinally
    /\ message_monitor' = "shutdown"
    /\ pc' = "fin_compactor"
    /\ UNCHANGED <<notNode, configVars, apiVars, storage_compactor, startup_idx, shutdown_idx,
                   sender, executor, receiver, run_exc>>

\* if self.storage_compactor: self.storage_compactor.shutdown()
RunShutdownCompactor ==
    /\ pc = "fin_compactor"
    /\ storage_compactor' =
            IF storage_compactor # "none" THEN "shutdown" ELSE storage_compactor
    /\ pc' = "fin_executor"
    /\ UNCHANGED <<notNode, configVars, apiVars, startup_idx, shutdown_idx, sender, executor,
                   message_monitor, receiver, run_exc>>

\* self.executor.shutdown()
RunShutdownExecutor ==
    /\ pc = "fin_executor"
    /\ executor' = "shutdown"
    /\ pc' = "fin_sender"
    /\ UNCHANGED <<notNode, configVars, apiVars, storage_compactor, startup_idx, shutdown_idx,
                   sender, message_monitor, receiver, run_exc>>

\* self.sender.shutdown(); run() is left, with the exception in flight if any.
RunShutdownSender ==
    /\ pc = "fin_sender"
    /\ sender' = "shutdown"
    /\ pc' = "done"
    /\ UNCHANGED <<notNode, configVars, apiVars, storage_compactor, startup_idx, shutdown_idx,
                   executor, message_monitor, receiver, run_exc>>

InitRun ==
    /\ StartFC
    /\ StartMonDefault
    /\ StartTimer
    /\ \E name_arg \in NameArgs, user_actors \in UserActorSets,
          dir_path \in StorageDirPaths, ns \in 0..MaxHooks, nd \in 0..MaxHooks :
            StartNode(name_arg, user_actors, dir_path, TRUE, ns, nd)

NextRun ==
    \/ RunStartSender
    \/ RunStartExecutor
    \/ RunStartCompactor
    \/ RunStartMonitor
    \/ \E raises \in BOOLEAN : RunStartupHook(raises)
    \/ RunSendInitMessage
    \/ RunReceiver
    \/ \E raises \in BOOLEAN : ReceiverExit(raises)
    \/ \E raises \in BOOLEAN : RunShutdownHook(raises)
    \/ RunShutdownMonitor
    \/ RunShutdownCompactor
    \/ RunShutdownExecutor
    \/ RunShutdownSender

SpecRun == InitRun /\ [][NextRun]_vars

(***************************************************************************)
(* actor.timer: _load_timers, _schedule_timers, do_actor_timer             *)
(***************************************************************************)
\* The last second of the model's clock.
MaxTime == 7

\* x.timer of each actor: <<>> for None, else <<its period in seconds>>.
ActorTimer(a) ==
    CASE a = "worker.tick" -> <<2>>
      [] a = "worker.sync" -> <<3>>
      [] OTHER             -> <<>>

HasTimer(a) == a \in actors /\ ActorTimer(a) # <<>>

TimedActors == SelectSeq(ActorOrder, HasTimer)

\* _load_timers at time `now`.
_load_timers(now) ==
    [i \in 1..Len(TimedActors) |->
        [name |-> TimedActors[i],
         seconds |-> ActorTimer(TimedActors[i])[1],
         deadline |-> now + ActorTimer(TimedActors[i])[1]]]

IsDue(now, timer) == now >= timer.deadline

\* The clock advances.
Tick ==
    /\ clock < MaxTime
    /\ clock' = clock + 1
    /\ UNCHANGED <<notTimer, tpc, timers, load_time, tasks, task_idx, hoped,
                   last_wake, prev_wake, wake_at>>

\* do_actor_timer: timers = self._load_timers(); return if there are none.
TimerLoad ==
    /\ tpc = "idle"
    /\ timers' = _load_timers(clock)
    /\ load_time' = clock
    /\ tpc' = IF timers' = <<>> THEN "done" ELSE "collect"
    /\ UNCHANGED <<notTimer, clock, tasks, task_idx, hoped, last_wake, prev_wake,
                   wake_at>>

\* A sweep that moves a due deadline on by one period from the old deadline.
TimerCollectFromDeadline ==
    /\ tpc = "collect"
    /\ LET now == clock
           due == SelectSeq(timers, LAMBDA t : IsDue(now, t))
       IN  /\ tasks' = [i \in 1..Len(due) |-> due[i].name]
           /\ timers' = [i \in 1..Len(timers) |->
                            IF IsDue(now, timers[i])
                            THEN [timers[i] EXCEPT !.deadline = @ + timers[i].seconds]
                            ELSE timers[i]]
           /\ prev_wake' = [a \in DOMAIN prev_wake |->
                                IF \E i \in 1..Len(due) : due[i].name = a
                                THEN last_wake[a] ELSE prev_wake[a]]
           /\ last_wake' = [a \in DOMAIN last_wake |->
                                IF \E i \in 1..Len(due) : due[i].name = a
                                THEN now ELSE last_wake[a]]
           /\ tpc' = IF due = <<>> THEN "sleep" ELSE "hoping"
    /\ task_idx' = 0
    /\ hoped' = <<>>
    /\ UNCHANGED <<notTimer, clock, load_time, wake_at>>

\* _schedule_timers, its first loop: now = time.time(); the due timers become
\* tasks and get the deadline now + seconds.
TimerCollect ==
    /\ tpc = "collect"
    /\ LET now == clock
           due == SelectSeq(timers, LAMBDA t : IsDue(now, t))
       IN  /\ tasks' = [i \in 1..Len(due) |-> due[i].name]
           /\ timers' = [i \in 1..Len(timers) |->
                            IF IsDue(now, timers[i])
                            THEN [timers[i] EXCEPT !.deadline = now + timers[i].seconds]
                            ELSE timers[i]]
           /\ prev_wake' = [a \in DOMAIN prev_wake |->
                                IF \E i \in 1..Len(due) : due[i].name = a
                                THEN last_wake[a] ELSE prev_wake[a]]
           /\ last_wake' = [a \in DOMAIN last_wake |->
                                IF \E i \in 1..Len(due) : due[i].name = a
                                THEN now ELSE last_wake[a]]
           /\ tpc' = IF due = <<>> THEN "sleep" ELSE "hoping"
    /\ task_idx' = 0
    /\ hoped' = <<>>
    /\ UNCHANGED <<notTimer, clock, load_time, wake_at>>

\* A second loop without the try: a hope that raises ends the loop.
TimerHopeAbort(raises) ==
    /\ tpc = "hoping"
    /\ task_idx < Len(tasks)
    /\ hoped' = Append(hoped, [name |-> tasks[task_idx + 1],
                               dst_node |-> current_node_name,
                               raised |-> raises])
    /\ task_idx' = task_idx + 1
    /\ tpc' = IF raises \/ task_idx + 1 = Len(tasks) THEN "sleep" ELSE "hoping"
    /\ UNCHANGED <<notTimer, clock, timers, load_time, tasks, last_wake, prev_wake,
                   wake_at>>

\* _schedule_timers, its second loop, one task: await ctx.hope(task,
\* dst_node=current node); an exception is logged and the loop goes on.
TimerHope(raises) ==
    /\ tpc = "hoping"
    /\ task_idx < Len(tasks)
    /\ hoped' = Append(hoped, [name |-> tasks[task_idx + 1],
                               dst_node |-> current_node_name,
                               raised |-> raises])
    /\ task_idx' = task_idx + 1
    /\ tpc' = IF task_idx + 1 = Len(tasks) THEN "sleep" ELSE "hoping"
    /\ UNCHANGED <<notTimer, clock, timers, load_time, tasks, last_wake, prev_wake,
                   wake_at>>

RECURSIVE WaitSeconds(_, _, _)
WaitSeconds(wait, ts, now) ==
    IF ts = <<>> THEN wait
    ELSE WaitSeconds(Min(wait, Head(ts).deadline - now), Tail(ts), now)

\* _schedule_timers, its end: now = time.time(); sleep for at most a second,
\* and no longer than to the next deadline.
TimerSleep ==
    /\ tpc = "sleep"
    /\ wake_at' = clock + Max(0, WaitSeconds(1, timers, clock))
    /\ tpc' = "sleeping"
    /\ UNCHANGED <<notTimer, clock, timers, load_time, tasks, task_idx, hoped,
                   last_wake, prev_wake>>

\* asyncio.sleep returns; do_actor_timer loops.
TimerWake ==
    /\ tpc = "sleeping"
    /\ clock >= wake_at
    /\ tpc' = "collect"
    /\ UNCHANGED <<notTimer, clock, timers, load_time, tasks, task_idx, hoped,
                   last_wake, prev_wake, wake_at>>

TimerActorSets ==
    {{}, {"worker.ping"}, {"worker.tick"}, {"worker.ping", "worker.tick", "worker.sync"}}

InitTimer ==
    /\ StartFC
    /\ StartMonDefault
    /\ StartTimer
    /\ \E name_arg \in NameArgs, user_actors \in TimerActorSets :
            StartNode(name_arg, user_actors, None, TRUE, 0, 0)

NextTimer ==
    \/ Tick
    \/ TimerLoad
    \/ TimerCollect
    \/ \E raises \in BOOLEAN : TimerHope(raises)
    \/ TimerSleep
    \/ TimerWake

SpecTimer == InitTimer /\ [][NextTimer]_vars

(***************************************************************************)
(* Storage, Sender, Receiver and Message Monitor over the outbox           *)
(***************************************************************************)
\* The first age past every timeout of the model: ages are kept up to it.
AgeCap == Max(monitor_cfg.ack_timeout, node_args.ack_timeout) + 1

\* Storage.ack(id) that appends the ACK whatever the state of the id.
StorageAckUnguarded(id) ==
    /\ m_terminal' = [m_terminal EXCEPT ![id] = Append(@, "ACK")]
    /\ m_status' = [m_status EXCEPT ![id] = "ACKED"]
    /\ m_queue' = m_queue \ {id}

\* Storage.ack(id): append ACK and take the entry out of the outbox; an id
\* that is not in the outbox (unknown, already acknowledged or already
\* failed) gets no record.
StorageAck(id) ==
    IF m_status[id] = "OUTBOX"
    THEN /\ m_terminal' = [m_terminal EXCEPT ![id] = Append(@, "ACK")]
         /\ m_status' = [m_status EXCEPT ![id] = "ACKED"]
         /\ m_queue' = m_queue \ {id}
    ELSE UNCHANGED <<m_terminal, m_status, m_queue>>

\* Storage.error(id, retry_exhausted): append ERROR and take the entry out of
\* the outbox; an id that is not in the outbox gets no record.
StorageError(id) ==
    IF m_status[id] = "OUTBOX"
    THEN /\ m_terminal' = [m_terminal EXCEPT ![id] = Append(@, "ERROR")]
         /\ m_status' = [m_status EXCEPT ![id] = "ERROR"]
         /\ m_queue' = m_queue \ {id}
    ELSE UNCHANGED <<m_terminal, m_status, m_queue>>

\* Sender.submit(msg): BEGIN and SEND are written, the message waits in
\* Sender.outbox.
SenderSubmit(id, require_ack) ==
    /\ m_status[id] = "none"
    /\ m_status' = [m_status EXCEPT ![id] = "OUTBOX"]
    /\ m_require_ack' = [m_require_ack EXCEPT ![id] = require_ack]
    /\ m_age' = [m_age EXCEPT ![id] = 0]
    /\ m_queue' = m_queue \cup {id}
    /\ UNCHANGED <<notMon, node_args, monitor_cfg, m_retry, m_delivered, m_terminal,
                   m_requeues, m_tries,
                   m_acks>>

\* A send worker posts a queued message and gets 2xx: without require_ack it
\* writes ACK at once, with it it records last_send_at and waits for the ACK.
SenderSendOk(id) ==
    /\ id \in m_queue
    /\ m_status[id] = "OUTBOX"
    /\ m_delivered' = [m_delivered EXCEPT ![id] = TRUE]
    /\ IF m_require_ack[id]
       THEN /\ m_age' = [m_age EXCEPT ![id] = 0]
            /\ m_queue' = m_queue \ {id}
            /\ UNCHANGED <<m_terminal, m_status>>
       ELSE /\ StorageAck(id)
            /\ UNCHANGED m_age
    /\ UNCHANGED <<notMon, node_args, monitor_cfg, m_require_ack, m_retry,
                   m_requeues, m_tries,
                   m_acks>>

\* A send worker posts a queued message and the post fails or times out: the
\* sender counts the attempt and keeps the message for another one.
SenderSendFail(id) ==
    /\ id \in m_queue
    /\ m_status[id] = "OUTBOX"
    /\ m_tries[id] < MaxSendTries
    /\ m_tries' = [m_tries EXCEPT ![id] = @ + 1]
    /\ UNCHANGED <<notMon, node_args, monitor_cfg, m_status, m_require_ack, m_retry,
                   m_age, m_queue, m_delivered, m_terminal, m_requeues,
                   m_acks>>

\* The receiver gets an ACK for id (the first, a late or a repeated one):
\* Storage.ack, and the sender's waiter is woken.
AckArrive(id) ==
    /\ m_delivered[id]
    /\ m_require_ack[id]
    /\ m_acks[id] < MaxAcks
    /\ m_acks' = [m_acks EXCEPT ![id] = @ + 1]
    /\ StorageAck(id)
    /\ UNCHANGED <<notMon, node_args, monitor_cfg, m_require_ack, m_retry, m_age,
                   m_delivered, m_requeues, m_tries>>

\* The monitor's sweep at one OUTBOX entry with now - last_send_at >
\* ack_timeout: ERROR(retry_exhausted) when retry_count >= max_retry_count,
\* else back into Sender.outbox with retry_count + 1.
MonitorCheck(id) ==
    /\ m_status[id] = "OUTBOX"
    /\ m_age[id] > monitor_cfg.ack_timeout
    /\ IF m_retry[id] >= monitor_cfg.max_retry_count
       THEN /\ StorageError(id)
            /\ UNCHANGED <<m_retry, m_requeues>>
       ELSE /\ m_queue' = m_queue \cup {id}
            /\ m_retry' = [m_retry EXCEPT ![id] = @ + 1]
            /\ m_requeues' = [m_requeues EXCEPT ![id] = @ + 1]
            /\ UNCHANGED <<m_terminal, m_status>>
    /\ UNCHANGED <<notMon, node_args, monitor_cfg, m_require_ack, m_age, m_delivered,
                   m_tries,
                   m_acks>>

\* A second passes.
MonTick ==
    /\ \E i \in MsgIds : m_status[i] = "OUTBOX" /\ m_age[i] < AgeCap
    /\ m_age' = [i \in MsgIds |->
                    IF m_status[i] = "OUTBOX" /\ m_age[i] < AgeCap
                    THEN m_age[i] + 1 ELSE m_age[i]]
    /\ UNCHANGED <<notMon, node_args, monitor_cfg, m_status, m_require_ack, m_retry,
                   m_queue, m_delivered, m_terminal, m_requeues, m_tries,
                   m_acks>>

InitMon ==
    /\ StartFC
    /\ StartTimer
    /\ StartNode("worker", {}, None, TRUE, 0, 0)
    /\ \E ack_timeout \in 1..MaxAckTimeout, max_retry_count \in 0..MaxRetryCount :
            StartMon(ack_timeout, max_retry_count)

NextMon ==
    \/ \E id \in MsgIds, require_ack \in BOOLEAN : SenderSubmit(id, require_ack)
    \/ \E id \in MsgIds : SenderSendOk(id)
    \/ \E id \in MsgIds : SenderSendFail(id)
    \/ \E id \in MsgIds : AckArrive(id)
    \/ \E id \in MsgIds : MonitorCheck(id)
    \/ MonTick

SpecMon == InitMon /\ [][NextMon]_vars

\* The target never acknowledges: no ACK arrives.
NextMonNoAck ==
    \/ \E id \in MsgIds : SenderSubmit(id, TRUE)
    \/ \E id \in MsgIds : SenderSendOk(id)
    \/ \E id \in MsgIds : SenderSendFail(id)
    \/ \E id \in MsgIds : MonitorCheck(id)
    \/ MonTick

\* The monitor sweeps every second and time passes.
SpecMonNoAck ==
    /\ InitMon
    /\ [][NextMonNoAck]_vars
    /\ WF_vars(MonTick)
    /\ \A id \in MsgIds : WF_vars(MonitorCheck(id))

InitFC == StartFC /\ StartTimer /\ StartMonDefault /\ StartNode("worker", {}, None, FALSE, 0, 0)

SpecFC == InitFC /\ [][NextFC]_vars

\* FeedChecksum.load over bytes read back from storage, whatever they are, then
\* update and dump over what it built.
StartBlob ==
    /\ fc = EmptyChecksum
    /\ data \in Blobs
    /\ fcErr = "none"
    /\ fcOp = FcCall("none", "", "", NoLimit, FALSE)

InitLoad == StartBlob /\ StartTimer /\ StartMonDefault /\ StartNode("worker", {}, None, FALSE, 0, 0)

NextLoad ==
    \/ FcLoad
    \/ \E ident \in Strings, content \in Strings : FcUpdate(ident, content)
    \/ \E limit \in Limits : FcDump(limit)

SpecLoad == InitLoad /\ [][NextLoad]_vars

(***************************************************************************)
(* Claims about FeedChecksum                                               *)
(***************************************************************************)
\* C1: for every reachable FeedChecksum x (4-byte keys, 8-byte values, any
\* number of entries), load(x.dump()) with no limit succeeds and equals x:
\* same version, same key->value entries in the same insertion order.
C1_RoundTrip ==
    LET d == Dump(fc, NoLimit)
        l == Load(d.bytes)
    IN  /\ d.ok
        /\ l.ok
        /\ FcEq(l.obj, fc)
        /\ Len(d.bytes) = 1 + _key_val_len * size(fc)

\* C1's case: an object of two entries, whose keys and values must be split
\* apart again by load.
C1_Witness ==
    /\ size(fc) >= 2
    /\ data = Dump(fc, NoLimit).bytes
    /\ Load(data).ok
    /\ FcEq(Load(data).obj, fc)

\* The number of entries the claim has dump(limit) keep, and those entries:
\* the last ones in insertion order.
KeptCount(x, limit) == IF limit = NoLimit THEN size(x) ELSE Min(limit[1], size(x))

Kept(x, limit) ==
    [i \in 1..KeptCount(x, limit) |-> x.map[size(x) - KeptCount(x, limit) + i]]

\* The layout of the class docstring over those entries.
DumpLayout(x, limit) ==
    LET kept == Kept(x, limit)
    IN  <<1>> \o Concat([i \in 1..Len(kept) |-> kept[i][1]])
             \o Concat([i \in 1..Len(kept) |-> kept[i][2]])

KeyOrder(x) == [i \in 1..size(x) |-> x.map[i][1]]

\* The last call was update(ident, ...) of an ident whose key was stored.
UpdatedStored ==
    /\ fcOp'.op = "update"
    /\ fcOp'.ident # ""
    /\ MapGet(fc.map, _hash(fcOp'.ident, _key_len)) # <<>>

\* C11: dump(limit) of every reachable object succeeds and is the version
\* byte, then the 4-byte keys, then the 8-byte values of exactly the last
\* min(limit, size) entries in insertion order (of all entries when limit is
\* None), 1 + 12 * min(limit, size) bytes long; a dump leaves the object as it
\* was; and an update of a stored ident leaves the order of the keys as it
\* was, so the entries kept are the last inserted, not the last updated.
C11_DumpLimit ==
    /\ [](\A limit \in Limits :
            LET d == Dump(fc, limit)
            IN  /\ d.ok
                /\ d.bytes = DumpLayout(fc, limit)
                /\ Len(d.bytes) = 1 + 12 * KeptCount(fc, limit))
    /\ [][fcOp'.op = "dump" =>
            /\ fc' = fc
            /\ fcErr' = "none"
            /\ data' = DumpLayout(fc, fcOp'.limit)]_vars
    /\ [][UpdatedStored => KeyOrder(fc') = KeyOrder(fc)]_vars

\* C11's case: ident "a" was inserted before ident "b" and the last call
\* updated it, changing its hash; a dump with limit 1 of this object holds
\* the entry of "b" alone.
C11_Witness ==
    /\ fcOp.op = "update"
    /\ fcOp.ident = "a"
    /\ fcOp.ret
    /\ size(fc) = 2
    /\ KeyOrder(fc) = <<_hash("a", _key_len), _hash("b", _key_len)>>
    /\ Dump(fc, <<1>>).bytes = <<1>> \o fc.map[2][1] \o fc.map[2][2]

\* The step is a call of update with a non-empty ident.
UpdateStep == fcOp'.op = "update" /\ fcOp'.ident # ""

\* The step repeats the call of update before it, arguments and all.
RepeatedUpdateStep ==
    /\ UpdateStep
    /\ fcOp.op = "update"
    /\ fcOp.ident = fcOp'.ident
    /\ fcOp.content = fcOp'.content

\* C12: update(ident, content) with a non-empty ident does not raise and
\* returns True iff no hash is stored under hash(ident) or the stored one
\* differs from hash(content), and then hash(content) is stored under that
\* key; otherwise it returns False and the object is as it was. Every other
\* entry keeps its place and value, the size never decreases and grows by at
\* most one, and an update repeated at once returns False.
C12_Update ==
    /\ [][UpdateStep =>
            LET key     == _hash(fcOp'.ident, _key_len)
                new_sum == _hash(fcOp'.content, _val_len)
                old_sum == MapGet(fc.map, key)
                ret     == fcOp'.ret
            IN  /\ fcErr' = "none"
                /\ ret <=> (old_sum = <<>> \/ old_sum[1] # new_sum)
                /\ ret => MapGet(fc'.map, key) = <<new_sum>>
                /\ ~ret => fc' = fc
                /\ fc'.version = fc.version
                /\ size(fc) <= size(fc')
                /\ size(fc') <= size(fc) + 1
                /\ size(fc') = size(fc) + 1 <=> old_sum = <<>>
                /\ \A i \in 1..size(fc) :
                        fc.map[i][1] # key => fc'.map[i] = fc.map[i]]_vars
    /\ [][RepeatedUpdateStep => ~fcOp'.ret]_vars

\* C12's case: update("a", "b") on an object of two entries that holds
\* hash("b") under hash("a") returned False.
C12_Witness ==
    /\ fcOp.op = "update"
    /\ fcOp.ident = "a"
    /\ fcOp.content = "b"
    /\ ~fcOp.ret
    /\ size(fc) = 2
    /\ MapGet(fc.map, _hash("a", _key_len)) = <<_hash("b", _val_len)>>

\* Version 1, every key of 4 bytes, every value of 8.
WellFormed(x) ==
    /\ x.version = 1
    /\ \A i \in 1..size(x) : Len(x.map[i][1]) = 4 /\ Len(x.map[i][2]) = 8

\* Some item has a key that is not 4 bytes long or a value that is not 8.
HasBadItem(items) ==
    \E i \in 1..Len(items) : Len(items[i][1]) # 4 \/ Len(items[i][2]) # 8

\* Whatever load builds from the bytes of Blobs is well formed.
LoadedWellFormed ==
    \A bytes \in Blobs : Load(bytes).ok => WellFormed(Load(bytes).obj)

\* The constructor raises for exactly the item lists that hold such an item.
ConstructorChecks ==
    \A items \in ItemLists : FeedChecksum(items, 1).ok <=> ~HasBadItem(items)

\* C13: every object reachable through the constructor, load, copy and update
\* has version 1 and only 4-byte keys and 8-byte values, and so has whatever
\* load builds from arbitrary bytes; dump raises on none of them, whatever the
\* limit. The constructor raises ValueError exactly when an item has a key
\* that is not 4 bytes or a value that is not 8 bytes: a call of it that did
\* not raise was handed no such item, and one that raised built nothing;
\* update with an empty ident raises ValueError and leaves the object as it
\* was.
C13_WellFormed ==
    /\ [](/\ WellFormed(fc)
          /\ \A limit \in Limits : Dump(fc, limit).ok
          /\ LoadedWellFormed
          /\ ConstructorChecks)
    /\ [][fcOp'.op = "FeedChecksum" =>
            /\ fcErr' \in {"none", "ValueError"}
            /\ fcErr' = "ValueError" => fc' = fc
            /\ fcErr' = "none" =>
                    \A items \in ItemLists : FcNew(items) => ~HasBadItem(items)]_vars
    /\ [][fcOp'.op = "dump" => fcErr' = "none"]_vars
    /\ [][(fcOp'.op = "update" /\ fcOp'.ident = "") =>
            (fcErr' = "ValueError" /\ fc' = fc)]_vars

\* C13's case: an object of two entries, one from update and one from the
\* constructor, on which update with an empty ident has just raised.
C13_Witness ==
    /\ fcOp.op = "update"
    /\ fcOp.ident = ""
    /\ fcErr = "ValueError"
    /\ size(fc) = 2
    /\ MapGet(fc.map, <<0, 0, 0, 1>>) # <<>>
    /\ MapGet(fc.map, _hash("a", _key_len)) # <<>>

\* The N of a blob of 1 + 12 * N bytes, and its i-th key and i-th value as
\* the layout places them.
BlobN(bytes) == (Len(bytes) - 1) \div 12

BlobKeyAt(bytes, i) == SubSeq(bytes, 4 * i - 2, 4 * i + 1)

BlobValAt(bytes, i) ==
    SubSeq(bytes, 4 * BlobN(bytes) + 8 * i - 6, 4 * BlobN(bytes) + 8 * i + 1)

\* The last place in the blob where the key of place i stands.
LastPlace(bytes, i) ==
    CHOOSE j \in i..BlobN(bytes) :
        /\ BlobKeyAt(bytes, j) = BlobKeyAt(bytes, i)
        /\ \A k \in (j + 1)..BlobN(bytes) : BlobKeyAt(bytes, k) # BlobKeyAt(bytes, i)

\* A non-empty blob whose first byte is not 1 or whose length minus one is no
\* multiple of 12.
Malformed(bytes) ==
    bytes # <<>> /\ (bytes[1] # 1 \/ (Len(bytes) - 1) % 12 # 0)

\* C14: load of a non-empty blob whose first byte is not 1 or whose length
\* minus one is no multiple of 12 raises ValueError and builds no object;
\* every other non-empty blob is accepted, and the object built from a blob of
\* 1 + 12 * N bytes has at most N entries, one for each distinct key of the
\* blob (so fewer than N only when a key repeats), each key holding the value
\* of its last place in the blob.
C14_Load ==
    [][fcOp'.op = "load" =>
        /\ Malformed(data) => (fcErr' = "ValueError" /\ fc' = fc)
        /\ (data # <<>> /\ ~Malformed(data)) => fcErr' = "none"
        /\ fcErr' = "none" =>
            LET n == BlobN(data)
            IN  /\ Len(data) = 1 + 12 * n
                /\ size(fc') <= n
                /\ size(fc') = Cardinality({BlobKeyAt(data, i) : i \in 1..n})
                /\ \A i \in 1..n :
                        MapGet(fc'.map, BlobKeyAt(data, i))
                            = <<BlobValAt(data, LastPlace(data, i))>>]_vars

\* C14's case: a blob of 1 + 12 * 2 bytes that holds one key twice was
\* accepted and gave an object of one entry, holding the second value.
C14_Witness ==
    /\ fcOp.op = "load"
    /\ fcErr = "none"
    /\ Len(data) = 25
    /\ BlobKeyAt(data, 1) = BlobKeyAt(data, 2)
    /\ size(fc) = 1
    /\ fc.map[1][2] = BlobVal(2)

(***************************************************************************)
(* Claims about ActorNode.run()                                            *)
(***************************************************************************)
ComponentShutDown(c) == c = "shutdown"

\* C2, as the specification states it: the executor and the sender are shut
\* down before the storage compactor and the message monitor, that is, the
\* compactor and the monitor are never shut down while the executor or the
\* sender is not.
C2_AsClaimed ==
    (ComponentShutDown(message_monitor) \/ ComponentShutDown(storage_compactor))
        => (ComponentShutDown(executor) /\ ComponentShutDown(sender))

\* C2, amended: run() shuts its components down in the order message monitor,
\* storage compactor (when there is one), executor, sender, and none of them
\* while the receiver is running; when run() is left all of them are shut
\* down.
C2_ShutdownOrder ==
    /\ (\E c \in {message_monitor, storage_compactor, executor, sender} :
            ComponentShutDown(c)) => receiver # "running"
    /\ ComponentShutDown(storage_compactor) => ComponentShutDown(message_monitor)
    /\ ComponentShutDown(executor) =>
            /\ ComponentShutDown(message_monitor)
            /\ storage_compactor \in {"none", "shutdown"}
    /\ ComponentShutDown(sender) => ComponentShutDown(executor)
    /\ pc = "done" =>
            /\ ComponentShutDown(sender)
            /\ ComponentShutDown(executor)
            /\ ComponentShutDown(message_monitor)
            /\ storage_compactor \in {"none", "shutdown"}

\* C2's case: the receiver ran and stopped, the monitor and the compactor are
\* shut down and the executor and the sender are still up.
C2_Witness ==
    /\ receiver = "stopped"
    /\ ComponentShutDown(message_monitor)
    /\ ComponentShutDown(storage_compactor)
    /\ executor = "started"
    /\ sender = "started"

CallsTo(dst) == {i \in 1..Len(calls) : calls[i].msg.dst = dst}

InitMessagesSent ==
    /\ Cardinality(CallsTo("actor.timer")) = 1
    /\ Cardinality(CallsTo("actor.init")) = (IF "actor.init" \in actors THEN 1 ELSE 0)

\* C5: run() submits at most one hope to actor.init and one to actor.timer,
\* both addressed to the current node (so handed to the executor), none
\* before the sender and the executor are started and every startup hook has
\* returned; when the receiver is about to run or has run, exactly one hope
\* to actor.timer has been submitted, and exactly one to actor.init when an
\* actor.init handler is registered, none otherwise.
C5_InitOnce ==
    /\ Cardinality(CallsTo("actor.timer")) <= 1
    /\ Cardinality(CallsTo("actor.init")) <= 1
    /\ \A i \in 1..Len(calls) :
            /\ calls[i].op = "hope"
            /\ calls[i].msg.dst \in {"actor.init", "actor.timer"}
            /\ calls[i].msg.dst_node = name
            /\ calls[i].to = "executor.submit"
            /\ ~calls[i].msg.require_ack
    /\ calls # <<>> =>
            /\ sender # "new"
            /\ executor # "new"
            /\ startup_idx = n_startup
    /\ (pc = "receiver" \/ receiver # "new") => InitMessagesSent

\* C5's case: a node with an actor.init handler and startup hooks, its
\* receiver running, the two hopes submitted.
C5_Witness ==
    /\ receiver = "running"
    /\ "actor.init" \in actors
    /\ n_startup >= 1
    /\ startup_idx = n_startup
    /\ Len(calls) = 2
    /\ calls[1].msg.dst = "actor.init"
    /\ calls[2].msg.dst = "actor.timer"

CompactorStarted ==
    pc \in {"start_monitor", "startup", "receiver", "receiving", "shutdown",
            "fin_monitor", "fin_compactor"}

CompactorStopped == pc \in {"fin_executor", "fin_sender", "done"}

\* C8: the storage is the memory storage iff no storage directory is
\* configured; storage_compactor is None iff the storage is the memory
\* storage; run() starts and shuts down the compactor when there is one, and
\* a node without one never has a started or shut down compactor.
C8_StorageCompactor ==
    /\ (storage = "memory") <=> (storage_dir_path \in {None, ""})
    /\ storage \in {"memory", "local"}
    /\ (storage_compactor = "none") <=> (storage = "memory")
    /\ (storage = "local" /\ pc = "constructed") => storage_compactor = "new"
    /\ (storage = "local" /\ CompactorStarted) => storage_compactor = "started"
    /\ (storage = "local" /\ CompactorStopped) => storage_compactor = "shutdown"

\* C8's case: a durable node whose run() has started and shut down its
\* compactor.
C8_Witness ==
    /\ storage_dir_path = "data/actorlib_example_worker"
    /\ storage = "local"
    /\ storage_compactor = "shutdown"
    /\ pc = "done"

\* run() is past its four start calls.
ComponentsStarted ==
    pc \notin {"constructed", "start_executor", "start_compactor", "start_monitor"}

\* A startup hook raised: the startup loop is over with hooks left.
StartupHookRaised ==
    ComponentsStarted /\ pc # "startup" /\ startup_idx < n_startup

\* A shutdown hook raised: the shutdown loop is over with hooks left.
ShutdownHookRaised ==
    pc \in {"fin_monitor", "fin_compactor", "fin_executor", "fin_sender", "done"}
        /\ shutdown_idx < n_shutdown

\* C15: whenever run() has been left, the message monitor, the storage
\* compactor (when there is one), the executor and the sender have been shut
\* down, whether a startup hook raised, the receiver returned or raised, or a
\* shutdown hook raised, and run() is left only past the four start calls.
\* After a startup hook raised, no init or timer message has been handed over
\* and the receiver has not run, then or later; after a shutdown hook raised
\* no further shutdown hook runs.
C15_FinallyShutdown ==
    /\ [](pc = "done" =>
            /\ ComponentShutDown(message_monitor)
            /\ storage_compactor # "none" => ComponentShutDown(storage_compactor)
            /\ ComponentShutDown(executor)
            /\ ComponentShutDown(sender))
    /\ [](StartupHookRaised => (calls = <<>> /\ receiver = "new"))
    /\ [][pc' = "done" => (ComponentsStarted /\ pc = "fin_sender")]_vars
    /\ [][ShutdownHookRaised =>
            (shutdown_idx' = shutdown_idx /\ ShutdownHookRaised')]_vars
    /\ [][StartupHookRaised => StartupHookRaised']_vars

\* C15's case: a durable node whose first startup hook raised and whose second
\* shutdown hook raised has left run() with all four components shut down,
\* no message handed over and the receiver never run.
C15_Witness ==
    /\ pc = "done"
    /\ n_startup = 2 /\ startup_idx = 0
    /\ n_shutdown = 2 /\ shutdown_idx = 1
    /\ storage_compactor = "shutdown"
    /\ message_monitor = "shutdown" /\ executor = "shutdown" /\ sender = "shutdown"
    /\ calls = <<>>
    /\ receiver = "new"
    /\ run_exc

(***************************************************************************)
(* Claims about ActorNode.ask / tell / hope                                *)
(***************************************************************************)
IsLocal(c) == c.msg.dst_node = name

\* C3: every message created by ask / tell / hope is handed to exactly one
\* component, once, chosen by dst_node == current node name on the completed
\* message: a local tell or hope to Executor.submit, a remote one to
\* Sender.submit, a local ask to Executor.handle_ask, a remote ask to the
\* main-thread client; a call that raised hands nothing over.
C3_Routing ==
    /\ \A i \in 1..Len(calls) :
        LET c == calls[i]
        IN  /\ c.msg.dst_node # None
            /\ c.op \in {"tell", "hope"} =>
                    c.to = (IF IsLocal(c) THEN "executor.submit" ELSE "sender.submit")
            /\ c.op = "ask" =>
                    c.to = (IF IsLocal(c) THEN "executor.handle_ask"
                            ELSE "main_thread_client.ask")
    /\ \A i, j \in 1..Len(calls) : i # j => calls[i].msg.id # calls[j].msg.id
    /\ Len(calls) + routing_errors = next_id - 1

\* C3's case: a tell with no dst_node that the registery completed to the
\* current node and that went to the executor, after a remote message that
\* went to the sender.
C3_Witness ==
    /\ Len(calls) = 2
    /\ calls[1].to = "sender.submit"
    /\ calls[2].op = "tell"
    /\ calls[2].to = "executor.submit"
    /\ api_last.dst_node = None
    /\ calls[2].msg.dst_node = name

\* C4: every message of tell has require_ack, no message of hope has it, and
\* every message of ask has is_ask.
C4_Flags ==
    \A i \in 1..Len(calls) :
        LET c == calls[i]
        IN  /\ c.op = "tell" => c.msg.require_ack
            /\ c.op = "hope" => ~c.msg.require_ack
            /\ c.op = "ask" => c.msg.is_ask

\* C4's case: a tell handed to the sender, then a hope handed to the sender.
C4_Witness ==
    /\ Len(calls) = 2
    /\ calls[1].op = "tell" /\ calls[1].to = "sender.submit" /\ calls[1].msg.require_ack
    /\ calls[2].op = "hope" /\ calls[2].to = "sender.submit" /\ ~calls[2].msg.require_ack

\* The call made in this step has no dst_node and names a module without a
\* known owner.
CannotComplete(call) ==
    /\ call.dst_node = None
    /\ ~HasOwner(Module(call.dst))

\* C7: a call of ask / tell / hope whose message the registery cannot
\* complete raises the routing error and hands the message to neither the
\* executor nor the sender: the calls made so far are unchanged.
C7_RoutingError ==
    [][(next_id' # next_id /\ CannotComplete(api_last'))
            => (api_err' = "RoutingError" /\ calls' = calls)]_vars

\* C7's case: a tell that raised the routing error after one message had been
\* handed over.
C7_Witness ==
    /\ api_err = "RoutingError"
    /\ api_last.op = "tell"
    /\ api_last.dst_node = None
    /\ Len(calls) = 1
    /\ next_id = 3

(***************************************************************************)
(* Claims about actor.timer                                                *)
(***************************************************************************)
TaskNames == SeqRange(tasks)

TimerInvariant ==
    /\ \A i \in 1..Len(timers) :
        LET t == timers[i]
        IN  /\ HasTimer(t.name)
            /\ t.seconds = ActorTimer(t.name)[1]
            /\ t.deadline = (IF last_wake[t.name] = -1 THEN load_time
                             ELSE last_wake[t.name]) + t.seconds
    /\ \A a \in DOMAIN last_wake :
        /\ prev_wake[a] # -1 => last_wake[a] - prev_wake[a] >= ActorTimer(a)[1]
        /\ ~HasTimer(a) => (last_wake[a] = -1 /\ a \notin TaskNames)
    /\ Len(hoped) = task_idx
    /\ \A i \in 1..Len(hoped) :
        /\ hoped[i].name = tasks[i]
        /\ hoped[i].dst_node = name
    /\ tpc \in {"sleep", "sleeping"} => Len(hoped) = Len(tasks)

SweepStep == tpc = "collect" /\ tpc' # "collect"

\* C6: in every sweep exactly the handlers whose deadline has passed (now >=
\* deadline) become tasks and each task gets one hope addressed to the current
\* node; a timer's deadline is load time + period until its first wake-up and
\* the `now` of its last wake-up + period after it, so the `now` of two
\* consecutive wake-ups of a handler are at least one period apart; a handler
\* without a timer is never woken.
C6_TimerWakes ==
    /\ []TimerInvariant
    /\ [][SweepStep =>
            \A i \in 1..Len(timers) :
                (timers[i].name \in SeqRange(tasks')) <=> (clock >= timers[i].deadline)]_vars

\* C6's case: a sweep that woke worker.tick for the second time and left
\* worker.sync, not yet due, alone.
C6_Witness ==
    /\ tpc = "sleep"
    /\ tasks = <<"worker.tick">>
    /\ Len(hoped) = 1
    /\ prev_wake["worker.tick"] # -1
    /\ "worker.sync" \in actors

\* The step awaits one hope of the sweep under way.
HopeStep == tpc = "hoping" /\ Len(hoped') = Len(hoped) + 1

\* The period of a handler with a timer.
Period(a) == ActorTimer(a)[1]

\* C16: the sweep's first loop moves the deadline of every due timer to
\* now + period and emits no hope, and the hopes that follow leave the timers
\* alone; a hope that raises does not end the sweep's second loop, so that
\* when the sweep goes to sleep every task has had its hope, in order, the
\* raising ones included; and a handler whose hope raised becomes a task again
\* only in a sweep at least one period after that wake-up.
C16_HopeFailure ==
    /\ [][SweepStep =>
            /\ hoped' = <<>>
            /\ Len(timers') = Len(timers)
            /\ \A i \in 1..Len(timers) :
                    timers'[i].deadline =
                        IF clock >= timers[i].deadline
                        THEN clock + timers[i].seconds
                        ELSE timers[i].deadline]_vars
    /\ [][HopeStep =>
            /\ timers' = timers
            /\ hoped'[Len(hoped')].name = tasks[Len(hoped')]
            /\ Len(hoped') < Len(tasks) => tpc' = "hoping"]_vars
    /\ [](tpc \in {"sleep", "sleeping"} =>
            /\ Len(hoped) = Len(tasks)
            /\ \A i \in 1..Len(tasks) : hoped[i].name = tasks[i])
    /\ [][SweepStep =>
            \A i \in 1..Len(hoped) :
                (hoped[i].raised /\ hoped[i].name \in SeqRange(tasks')) =>
                    clock >= last_wake[hoped[i].name] + Period(hoped[i].name)]_vars

\* C16's case: a sweep woke worker.tick and worker.sync together, the hope
\* for worker.tick raised and the hope for worker.sync was emitted after it;
\* both deadlines lie a full period after the sweep.
C16_Witness ==
    /\ tpc = "sleep"
    /\ Len(tasks) = 2
    /\ Len(hoped) = 2
    /\ hoped[1].raised
    /\ ~hoped[2].raised
    /\ \A i \in 1..Len(timers) :
            timers[i].deadline = last_wake[timers[i].name] + timers[i].seconds

C10_RetryExhausted ==
    /\ [](\A id \in MsgIds : m_requeues[id] <= node_args.max_retry_count)
    /\ [][\A id \in MsgIds :
            m_requeues'[id] # m_requeues[id] =>
                /\ m_status[id] = "OUTBOX"
                /\ m_age[id] > node_args.ack_timeout]_vars
    /\ [][\A id \in MsgIds :
            m_status[id] = "ERROR" =>
                /\ m_status'[id] = "ERROR"
                /\ m_requeues'[id] = m_requeues[id]
                /\ id \notin m_queue']_vars
    /\ \A id \in MsgIds :
            (m_status[id] = "OUTBOX") ~>
                (m_status[id] = "ERROR" /\ m_terminal[id] = <<"ERROR">>)

\* C10's case: a message delivered but never acknowledged, re-enqueued
\* max_retry_count = 2 times and then failed.
C10_Witness ==
    \E id \in MsgIds :
        /\ node_args.max_retry_count = 2
        /\ m_delivered[id]
        /\ m_requeues[id] = 2
        /\ m_status[id] = "ERROR"
        /\ m_terminal[id] = <<"ERROR">>

=============================================================================
